---- MODULE Spec2Model ----
(***************************************************************************)
(* A model of the singly linked list of src/src/lib.rs.                    *)
(*                                                                         *)
(* Link<T>(Option<Box<Node<T>>>) and Node<T> { value, next: Link<T> } are  *)
(* owned, nested values, and are modelled as such: an Option is the empty  *)
(* sequence (None) or a one-element sequence (Some(x)), a Link is an       *)
(* Option of a node and a node is a record [value, next].  A reference to  *)
(* a node inside a list (&Box<Node<T>>, &mut Box<Node<T>>) is modelled by  *)
(* the number of `next` hops that lead to it from the head of the list it  *)
(* borrows from.                                                           *)
(***************************************************************************)
EXTENDS Integers, Sequences, FiniteSets, TLC

\* The most nodes alive at once, over all the lists of the client.
MaxNodes == 3
\* Element values are 1..MaxVal.
MaxVal == 2

Values == 1..MaxVal
\* The list variables of the client program.
Handles == {"a", "b"}
\* The indices a client passes: every valid one, and two past every length.
Indices == 0..(MaxNodes + 1)

VARIABLES lists, cursor, call, ret, panic

vars == <<lists, cursor, call, ret, panic>>

----------------------------------------------------------------------------
\* Option<T>

None == <<>>

Some(x) == <<x>>

\* Result<(), &str>
Ok == [tag |-> "Ok"]

Err(e) == [tag |-> "Err", err |-> e]

----------------------------------------------------------------------------
\* Node<T>

Link_from(data) == data

Node_new(value, data) == [value |-> value, next |-> Link_from(data)]

\* *r for a node reference r = k into the list `self`: the node k hops from the head.
RECURSIVE Deref(_, _)
Deref(self, k) ==
    IF k = 0 THEN self[1] ELSE Deref(self[1].next, k - 1)

\* *r = node for a node reference r = k into the list `self`.
RECURSIVE Assign(_, _, _)
Assign(self, k, node) ==
    IF k = 0
    THEN Some(node)
    ELSE Some([self[1] EXCEPT !.next = Assign(self[1].next, k - 1, node)])

----------------------------------------------------------------------------
\* Link<T>

new == Link_from(None)

empty(self) == self = None

RECURSIVE len_loop(_, _)
len_loop(node, n) ==
    IF node = None THEN n ELSE len_loop(node[1].next, n + 1)

len(self) == len_loop(self, 0)

\* The element sequence of a list, head first.
RECURSIVE Elems(_)
Elems(self) ==
    IF self = None THEN <<>> ELSE <<self[1].value>> \o Elems(self[1].next)

RECURSIVE get_loop(_, _, _)
get_loop(node, k, i) ==
    IF k = i
    THEN Some(node)
    ELSE IF node.next = None THEN None ELSE get_loop(node.next[1], k + 1, i)

\* Some(the node at index i), or None.
get(self, i) ==
    IF self = None THEN None ELSE get_loop(self[1], 0, i)

\* Some(the reference to the node at index i), or None.
get_mut(self, i) ==
    IF get(self, i) = None THEN None ELSE Some(i)

\* end_node that returns the node it was given.
end_node_stays(node, k) == k

\* The reference to the last node of the chain that starts at `node`, itself k hops in.
RECURSIVE end_node(_, _)
end_node(node, k) ==
    IF node.next = None THEN k ELSE end_node(node.next[1], k + 1)

push(self, val) == Some(Node_new(val, self))

\* pop that takes the head and forgets *self = node.next.
pop_forgets_rest(self) ==
    IF self = None
    THEN [self |-> self, ret |-> None]
    ELSE [self |-> None, ret |-> Some(self[1].value)]

pop(self) ==
    IF self = None
    THEN [self |-> self, ret |-> None]
    ELSE [self |-> self[1].next, ret |-> Some(self[1].value)]

front(self) ==
    IF self = None THEN None ELSE Some(self[1].value)

\* The reference to the first value: the node it lies in.
front_mut(self) ==
    IF self = None THEN None ELSE Some(0)

back(self) ==
    IF self = None
    THEN None
    ELSE Some(Deref(self, end_node(self[1], 0)).value)

\* The reference to the last value: the node it lies in.
back_mut(self) ==
    IF self = None THEN None ELSE Some(end_node(self[1], 0))

concat(self, other) ==
    IF self = None
    THEN other
    ELSE LET r == end_node(self[1], 0)
         IN Assign(self, r, [Deref(self, r) EXCEPT !.next = other])

\* split_off that hands out the nodes after `at` and leaves them linked in self.
split_off_shares(self, at) ==
    LET r == get_mut(self, at)
    IN IF r # None
       THEN [self |-> self, ret |-> Link_from(Deref(self, r[1]).next)]
       ELSE [self |-> self, ret |-> new]

\* split_off that splits before the node at `at`, as Vec::split_off does.
split_off_before(self, at) ==
    IF at = 0
    THEN [self |-> None, ret |-> Link_from(self)]
    ELSE LET r == get_mut(self, at - 1)
         IN IF r # None
            THEN LET node == Deref(self, r[1])
                 IN [self |-> Assign(self, r[1], [node EXCEPT !.next = None]),
                     ret |-> Link_from(node.next)]
            ELSE [self |-> self, ret |-> new]

split_off(self, at) ==
    LET r == get_mut(self, at)
    IN IF r # None
       THEN LET node == Deref(self, r[1])
            IN [self |-> Assign(self, r[1], [node EXCEPT !.next = None]),
                ret |-> Link_from(node.next)]
       ELSE [self |-> self, ret |-> new]

\* take that hands out a clone and leaves self as it was.
take_clones(self) == [self |-> self, ret |-> Link_from(self)]

take(self) == [self |-> None, ret |-> Link_from(self)]

push_back(self, val) ==
    LET n == Node_new(val, None)
    IN IF self = None
       THEN Some(n)
       ELSE LET r == end_node(self[1], 0)
            IN Assign(self, r, [Deref(self, r) EXCEPT !.next = Link_from(Some(n))])

\* pop_back's loop that never advances.
pop_back_loop_stays(self, k) == k

\* The reference the while loop of pop_back ends with, started at reference k.
RECURSIVE pop_back_loop(_, _)
pop_back_loop(self, k) ==
    LET node == Deref(self, k)
    IN IF node.next # None /\ node.next[1].next # None
       THEN pop_back_loop(self, k + 1)
       ELSE k

pop_back(self) ==
    IF self = None
    THEN [self |-> self, ret |-> None]
    ELSE IF self[1].next = None
    THEN [self |-> None, ret |-> Some(self[1].value)]
    ELSE LET r == pop_back_loop(self, 0)
             node == Deref(self, r)
         IN IF node.next = None
            THEN [self |-> self, ret |-> None]
            ELSE [self |-> Assign(self, r, [node EXCEPT !.next = None]),
                  ret |-> Some(node.next[1].value)]

\* insert with the walk one node too far: get_mut(i) for get_mut(i - 1).
insert_one_too_far(self, i, val) ==
    IF i = 0
    THEN [self |-> push(self, val), ret |-> front(push(self, val))]
    ELSE LET r == get_mut(self, i)
         IN IF r = None
            THEN [self |-> self, ret |-> None]
            ELSE LET node == Deref(self, r[1])
                     n == Node_new(val, node.next)
                     linked == [node EXCEPT !.next = Link_from(Some(n))]
                 IN [self |-> Assign(self, r[1], linked),
                     ret |-> Some(linked.next[1].value)]

insert(self, i, val) ==
    IF i = 0
    THEN [self |-> push(self, val), ret |-> front(push(self, val))]
    ELSE LET r == get_mut(self, i - 1)
         IN IF r = None
            THEN [self |-> self, ret |-> None]
            ELSE LET node == Deref(self, r[1])
                     n == Node_new(val, node.next)
                     linked == [node EXCEPT !.next = Link_from(Some(n))]
                 IN [self |-> Assign(self, r[1], linked),
                     ret |-> IF linked.next = None
                             THEN None
                             ELSE Some(linked.next[1].value)]

\* delete that forgets to relink the removed node's successors.
delete_drops_rest(self, i) ==
    IF i = 0
    THEN pop(self)
    ELSE LET r == get_mut(self, i - 1)
         IN IF r = None
            THEN [self |-> self, ret |-> None]
            ELSE LET node == Deref(self, r[1])
                 IN IF node.next = None
                    THEN [self |-> self, ret |-> None]
                    ELSE [self |-> Assign(self, r[1], [node EXCEPT !.next = None]),
                          ret |-> Some(node.next[1].value)]

\* delete that clamps an index past the end to the last element.
delete_clamped(self, i) ==
    IF i = 0
    THEN pop(self)
    ELSE LET r == get_mut(self, i - 1)
         IN IF r = None \/ Deref(self, IF r = None THEN 0 ELSE r[1]).next = None
            THEN pop_back(self)
            ELSE LET node == Deref(self, r[1])
                 IN [self |-> Assign(self, r[1],
                                  [node EXCEPT !.next = node.next[1].next]),
                     ret |-> Some(node.next[1].value)]

delete(self, i) ==
    IF i = 0
    THEN pop(self)
    ELSE LET r == get_mut(self, i - 1)
         IN IF r = None
            THEN [self |-> self, ret |-> None]
            ELSE LET node == Deref(self, r[1])
                 IN IF node.next = None
                    THEN [self |-> self, ret |-> None]
                    ELSE [self |-> Assign(self, r[1],
                                     [node EXCEPT !.next = node.next[1].next]),
                          ret |-> Some(node.next[1].value)]

RECURSIVE from_elem_loop(_, _, _)
from_elem_loop(link, val, k) ==
    IF k = 0 THEN link ELSE from_elem_loop(push(link, val), val, k - 1)

\* from_elem whose loop runs over 0..=n.
from_elem_inclusive(val, n) == from_elem_loop(new, val, n + 1)

from_elem(val, n) == from_elem_loop(new, val, n)

\* The panic raised for an index out of range: the message and what it formats.
out_of_range(i) ==
    Some([msg |-> "index {} out of range for Link", index |-> i])

\* index that returns a default value where it should panic.
index_defaults(self, i) ==
    LET n == get(self, i)
    IN IF n # None
       THEN [ret |-> Some(n[1].value), panic |-> None]
       ELSE [ret |-> Some(0), panic |-> None]

\* Index::index: the value read, or the panic.
index(self, i) ==
    LET n == get(self, i)
    IN IF n # None
       THEN [ret |-> Some(n[1].value), panic |-> None]
       ELSE [ret |-> None, panic |-> out_of_range(i)]

\* index_mut that hands out the reference to the first value, whatever the index.
index_mut_first(self, i) ==
    LET r == get_mut(self, i)
    IN IF r # None
       THEN [ret |-> Some(0), panic |-> None]
       ELSE [ret |-> None, panic |-> out_of_range(i)]

\* IndexMut::index_mut: the reference to the value (the node it lies in), or the panic.
index_mut(self, i) ==
    LET r == get_mut(self, i)
    IN IF r # None
       THEN [ret |-> Some(r[1]), panic |-> None]
       ELSE [ret |-> None, panic |-> out_of_range(i)]

\* *r = v for the reference r to a value that front_mut, back_mut or index_mut gave.
Write(self, r, v) == Assign(self, r, [Deref(self, r) EXCEPT !.value = v])

RECURSIVE eq_loop(_, _)
eq_loop(a, b) ==
    IF a = None \/ b = None
    THEN TRUE
    ELSE IF a[1].value # b[1].value
    THEN FALSE
    ELSE eq_loop(a[1].next, b[1].next)

eq(self, other) == eq_loop(self, other)

----------------------------------------------------------------------------
\* Iter<'a, T>: data is the reference to the node that next() yields next.

iter(self) == [data |-> IF self = None THEN None ELSE Some(0)]

\* next that steps over the node after the one it yields.
Iter_next_skips(self, it) ==
    IF it.data = None
    THEN [it |-> it, ret |-> None]
    ELSE LET node == Deref(self, it.data[1])
         IN [it |-> [data |-> IF node.next = None \/ node.next[1].next = None
                              THEN None
                              ELSE Some(it.data[1] + 2)],
             ret |-> Some(node.value)]

Iter_next(self, it) ==
    IF it.data = None
    THEN [it |-> it, ret |-> None]
    ELSE LET node == Deref(self, it.data[1])
         IN [it |-> [data |-> IF node.next = None
                              THEN None
                              ELSE Some(it.data[1] + 1)],
             ret |-> Some(node.value)]

\* self.iter().count(): the calls to next() that return Some, n of them made so far.
RECURSIVE Iter_count(_, _, _)
Iter_count(self, it, n) ==
    LET r == Iter_next(self, it)
    IN IF r.ret = None THEN n ELSE Iter_count(self, r.it, n + 1)

\* The items self.iter() yields, each one cloned.
RECURSIVE Iter_cloned(_, _)
Iter_cloned(self, it) ==
    LET r == Iter_next(self, it)
    IN IF r.ret = None THEN <<>> ELSE <<r.ret[1]>> \o Iter_cloned(self, r.it)

----------------------------------------------------------------------------
\* IterMut<'a, T>: data is the reference to the node the cursor addresses.

iter_mut(self) == [data |-> IF self = None THEN None ELSE Some(0)]

\* next that steps over the node after the one it yields.
IterMut_next_skips(self, it) ==
    IF it.data = None
    THEN [it |-> it, ret |-> None]
    ELSE LET node == Deref(self, it.data[1])
         IN [it |-> [data |-> IF node.next = None \/ node.next[1].next = None
                              THEN None
                              ELSE Some(it.data[1] + 2)],
             ret |-> Some(node.value)]

\* next that, having nothing to yield, goes back to the head of the list.
IterMut_next_wraps(self, it) ==
    IF it.data = None
    THEN [it |-> iter_mut(self), ret |-> None]
    ELSE LET node == Deref(self, it.data[1])
         IN [it |-> [data |-> IF node.next = None
                              THEN None
                              ELSE Some(it.data[1] + 1)],
             ret |-> Some(node.value)]

IterMut_next(self, it) ==
    IF it.data = None
    THEN [it |-> it, ret |-> None]
    ELSE LET node == Deref(self, it.data[1])
         IN [it |-> [data |-> IF node.next = None
                              THEN None
                              ELSE Some(it.data[1] + 1)],
             ret |-> Some(node.value)]

\* The items next() yields from here until it returns None.
RECURSIVE IterMut_rest(_, _)
IterMut_rest(self, it) ==
    LET r == IterMut_next(self, it)
    IN IF r.ret = None THEN <<>> ELSE <<r.ret[1]>> \o IterMut_rest(self, r.it)

\* insert_next that links the new node in without the nodes that followed.
IterMut_insert_next_cuts(self, it, value) ==
    IF it.data # None
    THEN LET node == Deref(self, it.data[1])
             n == Node_new(value, None)
         IN [self |-> Assign(self, it.data[1],
                             [node EXCEPT !.next = Link_from(Some(n))]),
             ret |-> Ok]
    ELSE [self |-> self, ret |-> Err("The iterator is pointed at no data!")]

IterMut_insert_next(self, it, value) ==
    IF it.data # None
    THEN LET node == Deref(self, it.data[1])
             n == Node_new(value, node.next)
         IN [self |-> Assign(self, it.data[1],
                             [node EXCEPT !.next = Link_from(Some(n))]),
             ret |-> Ok]
    ELSE [self |-> self, ret |-> Err("The iterator is pointed at no data!")]

\* pop_next that forgets node.next = n.next: the nodes after the removed one go too.
IterMut_pop_next_drops(self, it) ==
    IF it.data # None
    THEN LET node == Deref(self, it.data[1])
         IN IF node.next = None
            THEN [self |-> self, ret |-> None]
            ELSE [self |-> Assign(self, it.data[1], [node EXCEPT !.next = None]),
                  ret |-> Some(node.next[1].value)]
    ELSE [self |-> self, ret |-> None]

IterMut_pop_next(self, it) ==
    IF it.data # None
    THEN LET node == Deref(self, it.data[1])
         IN IF node.next = None
            THEN [self |-> self, ret |-> None]
            ELSE [self |-> Assign(self, it.data[1],
                                  [node EXCEPT !.next = node.next[1].next]),
                  ret |-> Some(node.next[1].value)]
    ELSE [self |-> self, ret |-> None]

----------------------------------------------------------------------------
\* IntoIter<T>: data is the list the iterator owns.

into_iter(self) == [data |-> self]

\* next that takes the head and forgets self.data = node.next.
IntoIter_next_stays(it) ==
    IF it.data = None
    THEN [it |-> it, ret |-> None]
    ELSE [it |-> [data |-> None], ret |-> Some(it.data[1].value)]

IntoIter_next(it) ==
    IF it.data = None
    THEN [it |-> it, ret |-> None]
    ELSE [it |-> [data |-> it.data[1].next], ret |-> Some(it.data[1].value)]

\* The items the iterator yields until next() returns None.
RECURSIVE IntoIter_items(_)
IntoIter_items(it) ==
    LET r == IntoIter_next(it)
    IN IF r.ret = None THEN <<>> ELSE <<r.ret[1]>> \o IntoIter_items(r.it)

----------------------------------------------------------------------------
\* FromIterator<T> and FromIterator<&T>: the iterator is the sequence of its items.

as_link(self) == Link_from(Some(self))

\* *r = link for the reference r = k to the Link k hops from the head of `self`
\* (the list itself for k = 0, the `next` of node k - 1 otherwise).
RECURSIVE AssignLink(_, _, _)
AssignLink(self, k, link) ==
    IF k = 0
    THEN link
    ELSE Some([self[1] EXCEPT !.next = AssignLink(self[1].next, k - 1, link)])

\* The for loop of from_iter: `node` is the reference to the Link to fill next.
RECURSIVE from_iter_loop(_, _, _)
from_iter_loop(link, node, items) ==
    IF items = <<>>
    THEN link
    ELSE from_iter_loop(AssignLink(link, node, as_link(Node_new(Head(items), None))),
                        node + 1, Tail(items))

\* from_iter that pushes every item at the front, as from_elem does.
RECURSIVE from_iter_pushes(_)
from_iter_pushes(items) ==
    IF items = <<>>
    THEN new
    ELSE push(from_iter_pushes(SubSeq(items, 1, Len(items) - 1)), items[Len(items)])

from_iter(items) == from_iter_loop(new, 0, items)

----------------------------------------------------------------------------
(***************************************************************************)
(* The client program.  It owns one list per handle and at most one        *)
(* iterator; `call` is the call it made last and `ret` what that call      *)
(* returned.  A list moved out of a handle (concat's argument) leaves the  *)
(* handle bound to a new, empty list; a list assigned to a handle drops    *)
(* the list the handle held.  While the iterator lives the client makes no *)
(* call but on the iterator, and after a panic it makes none at all.       *)
(* Every action states the call first.                                     *)
(***************************************************************************)

Call(op, l, o, i, v) == [op |-> op, l |-> l, o |-> o, i |-> i, v |-> v]

(***************************************************************************)
(* What a call returns, by its Rust type: (), bool, usize, Option<T> or    *)
(* Option<&T> (the value), Option<&mut T> (the reference: the node the     *)
(* value lies in), Link<T> and Result<(), &str>.                           *)
(***************************************************************************)
Unit == [unit |-> "()"]

Bool(b) == [bool |-> b]

Usize(n) == [usize |-> n]

Opt(o) == [option |-> o]

Ref(r) == [ref |-> r]

Linked(l) == [link |-> l]

Res(r) == [result |-> r]

NoCursor == [kind |-> "none"]

\* The most calls to next() made on one iterator.
MaxNexts == MaxNodes + 2

\* The most successful insert_next and pop_next calls made on one iterator.
MaxEdits == MaxNodes

RECURSIVE SumLen(_)
SumLen(S) ==
    IF S = {}
    THEN 0
    ELSE LET h == CHOOSE x \in S : TRUE
         IN len(lists[h]) + SumLen(S \ {h})

\* The nodes alive: those of every list the client holds.
TotalNodes == SumLen(DOMAIN lists)

Idle == panic = None /\ cursor = NoCursor

Init ==
    /\ lists = [h \in Handles |-> new]
    /\ cursor = NoCursor
    /\ call = Call("new", "a", "a", 0, 0)
    /\ ret = Linked(new)
    /\ panic = None

\* l = Link::new()
New(l) ==
    /\ Idle
    /\ call' = Call("new", l, l, 0, 0)
    /\ lists' = [lists EXCEPT ![l] = new]
    /\ ret' = Linked(new)
    /\ UNCHANGED <<cursor, panic>>

\* l = Link::from_elem(v, n)
FromElem(l, v, n) ==
    /\ Idle
    /\ TotalNodes - len(lists[l]) + n <= MaxNodes
    /\ call' = Call("from_elem", l, l, n, v)
    /\ lists' = [lists EXCEPT ![l] = from_elem(v, n)]
    /\ ret' = Linked(from_elem(v, n))
    /\ UNCHANGED <<cursor, panic>>

Empty(l) ==
    /\ Idle
    /\ call' = Call("empty", l, l, 0, 0)
    /\ ret' = Bool(empty(lists[l]))
    /\ UNCHANGED <<lists, cursor, panic>>

LenOf(l) ==
    /\ Idle
    /\ call' = Call("len", l, l, 0, 0)
    /\ ret' = Usize(len(lists[l]))
    /\ UNCHANGED <<lists, cursor, panic>>

Front(l) ==
    /\ Idle
    /\ call' = Call("front", l, l, 0, 0)
    /\ ret' = Opt(front(lists[l]))
    /\ UNCHANGED <<lists, cursor, panic>>

Back(l) ==
    /\ Idle
    /\ call' = Call("back", l, l, 0, 0)
    /\ ret' = Opt(back(lists[l]))
    /\ UNCHANGED <<lists, cursor, panic>>

\* if let Some(x) = l.front_mut() { *x = v }
FrontMut(l, v) ==
    /\ Idle
    /\ call' = Call("front_mut", l, l, 0, v)
    /\ LET r == front_mut(lists[l])
       IN /\ lists' = IF r = None
                      THEN lists
                      ELSE [lists EXCEPT ![l] = Write(lists[l], r[1], v)]
          /\ ret' = Ref(r)
    /\ UNCHANGED <<cursor, panic>>

\* if let Some(x) = l.back_mut() { *x = v }
BackMut(l, v) ==
    /\ Idle
    /\ call' = Call("back_mut", l, l, 0, v)
    /\ LET r == back_mut(lists[l])
       IN /\ lists' = IF r = None
                      THEN lists
                      ELSE [lists EXCEPT ![l] = Write(lists[l], r[1], v)]
          /\ ret' = Ref(r)
    /\ UNCHANGED <<cursor, panic>>

Push(l, v) ==
    /\ Idle
    /\ TotalNodes < MaxNodes
    /\ call' = Call("push", l, l, 0, v)
    /\ lists' = [lists EXCEPT ![l] = push(lists[l], v)]
    /\ ret' = Unit
    /\ UNCHANGED <<cursor, panic>>

Pop(l) ==
    /\ Idle
    /\ call' = Call("pop", l, l, 0, 0)
    /\ lists' = [lists EXCEPT ![l] = pop(lists[l]).self]
    /\ ret' = Opt(pop(lists[l]).ret)
    /\ UNCHANGED <<cursor, panic>>

PushBack(l, v) ==
    /\ Idle
    /\ TotalNodes < MaxNodes
    /\ call' = Call("push_back", l, l, 0, v)
    /\ lists' = [lists EXCEPT ![l] = push_back(lists[l], v)]
    /\ ret' = Unit
    /\ UNCHANGED <<cursor, panic>>

PopBack(l) ==
    /\ Idle
    /\ call' = Call("pop_back", l, l, 0, 0)
    /\ lists' = [lists EXCEPT ![l] = pop_back(lists[l]).self]
    /\ ret' = Opt(pop_back(lists[l]).ret)
    /\ UNCHANGED <<cursor, panic>>

Insert(l, i, v) ==
    /\ Idle
    /\ TotalNodes < MaxNodes
    /\ call' = Call("insert", l, l, i, v)
    /\ lists' = [lists EXCEPT ![l] = insert(lists[l], i, v).self]
    /\ ret' = Opt(insert(lists[l], i, v).ret)
    /\ UNCHANGED <<cursor, panic>>

Delete(l, i) ==
    /\ Idle
    /\ call' = Call("delete", l, l, i, 0)
    /\ lists' = [lists EXCEPT ![l] = delete(lists[l], i).self]
    /\ ret' = Opt(delete(lists[l], i).ret)
    /\ UNCHANGED <<cursor, panic>>

\* l.concat(o): o is moved into the call.
Concat(l, o) ==
    /\ Idle
    /\ l # o
    /\ call' = Call("concat", l, o, 0, 0)
    /\ lists' = [lists EXCEPT ![l] = concat(lists[l], lists[o]), ![o] = new]
    /\ ret' = Unit
    /\ UNCHANGED <<cursor, panic>>

\* o = l.split_off(at)
SplitOff(l, o, at) ==
    /\ Idle
    /\ l # o
    /\ call' = Call("split_off", l, o, at, 0)
    /\ lists' = [lists EXCEPT ![l] = split_off(lists[l], at).self,
                              ![o] = split_off(lists[l], at).ret]
    /\ ret' = Linked(split_off(lists[l], at).ret)
    /\ UNCHANGED <<cursor, panic>>

\* o = l.take()
Take(l, o) ==
    /\ Idle
    /\ l # o
    /\ call' = Call("take", l, o, 0, 0)
    /\ lists' = [lists EXCEPT ![l] = take(lists[l]).self,
                              ![o] = take(lists[l]).ret]
    /\ ret' = Linked(take(lists[l]).ret)
    /\ UNCHANGED <<cursor, panic>>

\* l[i]
Index(l, i) ==
    /\ Idle
    /\ call' = Call("index", l, l, i, 0)
    /\ ret' = Opt(index(lists[l], i).ret)
    /\ panic' = index(lists[l], i).panic
    /\ UNCHANGED <<lists, cursor>>

\* l[i] = v
IndexMut(l, i, v) ==
    /\ Idle
    /\ call' = Call("index_mut", l, l, i, v)
    /\ LET r == index_mut(lists[l], i)
       IN /\ lists' = IF r.panic # None
                      THEN lists
                      ELSE [lists EXCEPT ![l] = Write(lists[l], r.ret[1], v)]
          /\ ret' = Ref(r.ret)
          /\ panic' = r.panic
    /\ UNCHANGED cursor

\* l == o
Eq(l, o) ==
    /\ Idle
    /\ call' = Call("eq", l, o, 0, 0)
    /\ ret' = Bool(eq(lists[l], lists[o]))
    /\ UNCHANGED <<lists, cursor, panic>>

\* cursor = l.iter(): `nexts` counts the calls to next() made on it, `done` tells
\* whether one of them returned None.
IterOf(l) ==
    /\ Idle
    /\ call' = Call("iter", l, l, 0, 0)
    /\ cursor' = [kind |-> "iter", of |-> l, it |-> iter(lists[l]),
                  nexts |-> 0, done |-> FALSE]
    /\ ret' = Unit
    /\ UNCHANGED <<lists, panic>>

IterNext ==
    /\ panic = None
    /\ cursor.kind = "iter"
    /\ cursor.nexts < MaxNexts
    /\ call' = Call("next", cursor.of, cursor.of, 0, 0)
    /\ LET r == Iter_next(lists[cursor.of], cursor.it)
       IN /\ cursor' = [cursor EXCEPT !.it = r.it, !.nexts = @ + 1,
                                      !.done = @ \/ r.ret = None]
          /\ ret' = Opt(r.ret)
    /\ UNCHANGED <<lists, panic>>

\* cursor = l.iter_mut(): `nexts` counts the calls to next() made on it, `done`
\* tells whether one of them returned None, `edited` whether insert_next or
\* pop_next changed the list since; `len0` is the length the list had, `yields`
\* counts the calls to next() that returned Some, `ins` the calls to insert_next
\* that returned Ok and `rem` the calls to pop_next that returned Some.
IterMutOf(l) ==
    /\ Idle
    /\ call' = Call("iter_mut", l, l, 0, 0)
    /\ cursor' = [kind |-> "iter_mut", of |-> l, it |-> iter_mut(lists[l]),
                  nexts |-> 0, done |-> FALSE, edited |-> FALSE,
                  len0 |-> len(lists[l]), yields |-> 0, ins |-> 0, rem |-> 0]
    /\ ret' = Unit
    /\ UNCHANGED <<lists, panic>>

IterMutNext ==
    /\ panic = None
    /\ cursor.kind = "iter_mut"
    /\ cursor.nexts < MaxNexts
    /\ call' = Call("next", cursor.of, cursor.of, 0, 0)
    /\ LET r == IterMut_next(lists[cursor.of], cursor.it)
       IN /\ cursor' = [cursor EXCEPT !.it = r.it, !.nexts = @ + 1,
                                      !.done = @ \/ r.ret = None,
                                      !.yields = IF r.ret = None THEN @ ELSE @ + 1]
          /\ ret' = Opt(r.ret)
    /\ UNCHANGED <<lists, panic>>

IterMutInsertNext(v) ==
    /\ panic = None
    /\ cursor.kind = "iter_mut"
    /\ TotalNodes < MaxNodes
    /\ cursor.ins + cursor.rem < MaxEdits
    /\ call' = Call("insert_next", cursor.of, cursor.of, 0, v)
    /\ LET r == IterMut_insert_next(lists[cursor.of], cursor.it, v)
       IN /\ lists' = [lists EXCEPT ![cursor.of] = r.self]
          /\ ret' = Res(r.ret)
          /\ cursor' = [cursor EXCEPT !.edited = @ \/ r.ret = Ok,
                                      !.ins = IF r.ret = Ok THEN @ + 1 ELSE @]
    /\ UNCHANGED panic

IterMutPopNext ==
    /\ panic = None
    /\ cursor.kind = "iter_mut"
    /\ cursor.ins + cursor.rem < MaxEdits
    /\ call' = Call("pop_next", cursor.of, cursor.of, 0, 0)
    /\ LET r == IterMut_pop_next(lists[cursor.of], cursor.it)
       IN /\ lists' = [lists EXCEPT ![cursor.of] = r.self]
          /\ ret' = Opt(r.ret)
          /\ cursor' = [cursor EXCEPT !.edited = @ \/ r.ret # None,
                                      !.rem = IF r.ret # None THEN @ + 1 ELSE @]
    /\ UNCHANGED panic

\* cursor = l.into_iter(): l is moved into the iterator; `src` is the list that
\* was moved, `nexts` counts the calls to next() made on the iterator and `done`
\* tells whether one of them returned None.
IntoIterOf(l) ==
    /\ Idle
    /\ call' = Call("into_iter", l, l, 0, 0)
    /\ cursor' = [kind |-> "into_iter", of |-> l, into |-> into_iter(lists[l]),
                  nexts |-> 0, done |-> FALSE, src |-> lists[l]]
    /\ lists' = [lists EXCEPT ![l] = new]
    /\ ret' = Unit
    /\ UNCHANGED panic

IntoIterNext ==
    /\ panic = None
    /\ cursor.kind = "into_iter"
    /\ cursor.nexts < MaxNexts
    /\ call' = Call("next", cursor.of, cursor.of, 0, 0)
    /\ LET r == IntoIter_next(cursor.into)
       IN /\ cursor' = [cursor EXCEPT !.into = r.it, !.nexts = @ + 1,
                                      !.done = @ \/ r.ret = None]
          /\ ret' = Opt(r.ret)
    /\ UNCHANGED <<lists, panic>>

\* o = l.into_iter().collect(): l is moved into the iterator.
Collect(l, o) ==
    /\ Idle
    /\ l # o
    /\ call' = Call("collect", l, o, 0, 0)
    /\ LET items == IntoIter_items(into_iter(lists[l]))
       IN /\ lists' = [lists EXCEPT ![l] = new, ![o] = from_iter(items)]
          /\ ret' = Linked(from_iter(items))
    /\ UNCHANGED <<cursor, panic>>

\* o = l.iter().collect(): the items are references, and from_iter clones each.
CollectRefs(l, o) ==
    /\ Idle
    /\ l # o
    /\ TotalNodes - len(lists[o]) + len(lists[l]) <= MaxNodes
    /\ call' = Call("collect_refs", l, o, 0, 0)
    /\ LET items == Iter_cloned(lists[l], iter(lists[l]))
       IN /\ lists' = [lists EXCEPT ![o] = from_iter(items)]
          /\ ret' = Linked(from_iter(items))
    /\ UNCHANGED <<cursor, panic>>

\* The iterator goes out of scope and its borrow ends.
DropCursor ==
    /\ panic = None
    /\ cursor # NoCursor
    /\ call' = Call("drop", cursor.of, cursor.of, 0, 0)
    /\ cursor' = NoCursor
    /\ ret' = Unit
    /\ UNCHANGED <<lists, panic>>

Next ==
    \/ \E l \in Handles : New(l)
    \/ \E l \in Handles, v \in Values, n \in 0..MaxNodes : FromElem(l, v, n)
    \/ \E l \in Handles : Empty(l)
    \/ \E l \in Handles : LenOf(l)
    \/ \E l \in Handles : Front(l)
    \/ \E l \in Handles : Back(l)
    \/ \E l \in Handles, v \in Values : FrontMut(l, v)
    \/ \E l \in Handles, v \in Values : BackMut(l, v)
    \/ \E l \in Handles, v \in Values : Push(l, v)
    \/ \E l \in Handles : Pop(l)
    \/ \E l \in Handles, v \in Values : PushBack(l, v)
    \/ \E l \in Handles : PopBack(l)
    \/ \E l \in Handles, i \in Indices, v \in Values : Insert(l, i, v)
    \/ \E l \in Handles, i \in Indices : Delete(l, i)
    \/ \E l, o \in Handles : Concat(l, o)
    \/ \E l, o \in Handles, at \in Indices : SplitOff(l, o, at)
    \/ \E l, o \in Handles : Take(l, o)
    \/ \E l \in Handles, i \in Indices : Index(l, i)
    \/ \E l \in Handles, i \in Indices, v \in Values : IndexMut(l, i, v)
    \/ \E l, o \in Handles : Eq(l, o)
    \/ \E l \in Handles : IterOf(l)
    \/ IterNext
    \/ \E l \in Handles : IterMutOf(l)
    \/ IterMutNext
    \/ \E v \in Values : IterMutInsertNext(v)
    \/ IterMutPopNext
    \/ \E l \in Handles : IntoIterOf(l)
    \/ IntoIterNext
    \/ \E l, o \in Handles : Collect(l, o)
    \/ \E l, o \in Handles : CollectRefs(l, o)
    \/ DropCursor

Spec == Init /\ [][Next]_vars

----------------------------------------------------------------------------
\* A client with three lists that only builds and concatenates them.

Handles3 == {"a", "b", "c"}

InitConcat ==
    /\ lists = [h \in Handles3 |-> new]
    /\ cursor = NoCursor
    /\ call = Call("new", "a", "a", 0, 0)
    /\ ret = Linked(new)
    /\ panic = None

NextConcat ==
    \/ \E l \in Handles3, v \in Values : PushBack(l, v)
    \/ \E l, o \in Handles3 : Concat(l, o)

SpecConcat == InitConcat /\ [][NextConcat]_vars

----------------------------------------------------------------------------
(***************************************************************************)
(* A client with three lists that gives every node it creates a value no   *)
(* node alive carries.  No operation it uses clones a value, so a value    *)
(* names the node that was created with it.                                *)
(***************************************************************************)

Tags == 1..MaxNodes

\* The values of the nodes reachable from a link.
Held(link) == {Elems(link)[k] : k \in 1..Len(Elems(link))}

\* No node alive carries v.
Fresh(v) == \A h \in DOMAIN lists : v \notin Held(lists[h])

NextOwn ==
    \/ \E l \in Handles3, v \in Tags : Fresh(v) /\ Push(l, v)
    \/ \E l \in Handles3 : Pop(l)
    \/ \E l \in Handles3, v \in Tags : Fresh(v) /\ PushBack(l, v)
    \/ \E l \in Handles3 : PopBack(l)
    \/ \E l \in Handles3, i \in Indices, v \in Tags : Fresh(v) /\ Insert(l, i, v)
    \/ \E l \in Handles3, i \in Indices : Delete(l, i)
    \/ \E l, o \in Handles3 : Concat(l, o)
    \/ \E l, o \in Handles3, at \in Indices : SplitOff(l, o, at)
    \/ \E l, o \in Handles3 : Take(l, o)

SpecOwn == InitConcat /\ [][NextOwn]_vars

----------------------------------------------------------------------------
\* What the specification says of the element sequences.

\* L with v put at index i (0-based).
InsertAt(L, i, v) == SubSeq(L, 1, i) \o <<v>> \o SubSeq(L, i + 1, Len(L))

\* L without the element at index i (0-based).
RemoveAt(L, i) == SubSeq(L, 1, i) \o SubSeq(L, i + 2, Len(L))

\* The list a call was made on, before and after it.
Before == Elems(lists[call'.l])

After == Elems(lists'[call'.l])

----------------------------------------------------------------------------
\* C1: l == o returns true exactly when the two lists have the same length and
\* equal elements at every position; a list and a proper prefix of it are unequal.
C1_EqIffSameElements ==
    call.op = "eq" =>
        (ret.bool <=> Elems(lists[call.l]) = Elems(lists[call.o]))

\* C2: insert(i, v) with 0 <= i <= n returns Some(&v) and leaves
\* L[0..i] ++ [v] ++ L[i..]: the element at index i is v, the length is n + 1, the
\* other elements keep their order; insert(0, v) does what push(v) does.
C2_InsertInRange ==
    [][(call'.op = "insert" /\ call'.i <= Len(Before)) =>
          /\ ret' = Opt(Some(call'.v))
          /\ After = InsertAt(Before, call'.i, call'.v)
          /\ index(lists'[call'.l], call'.i) = [ret |-> Some(call'.v), panic |-> None]
          /\ len(lists'[call'.l]) = len(lists[call'.l]) + 1
          /\ (call'.i = 0 => lists'[call'.l] = push(lists[call'.l], call'.v))
          /\ \A h \in DOMAIN lists \ {call'.l} : lists'[h] = lists[h]]_vars

\* An insertion in the middle: at index 1 of a list of two.
C2_Witness ==
    /\ call.op = "insert"
    /\ call.i = 1
    /\ ret = Opt(Some(call.v))
    /\ len(lists[call.l]) = 3
    /\ Elems(lists[call.l])[1] # call.v

\* C3: delete(i) with 0 <= i < n returns Some(L[i]) and leaves L[0..i] ++ L[i+1..]:
\* the length is n - 1 and the other elements keep their order; delete(0) does what
\* pop() does.
C3_DeleteInRange ==
    [][(call'.op = "delete" /\ call'.i < Len(Before)) =>
          /\ ret' = Opt(Some(Before[call'.i + 1]))
          /\ After = RemoveAt(Before, call'.i)
          /\ len(lists'[call'.l]) = len(lists[call'.l]) - 1
          /\ (call'.i = 0 => /\ lists'[call'.l] = pop(lists[call'.l]).self
                             /\ ret' = Opt(pop(lists[call'.l]).ret))
          /\ \A h \in DOMAIN lists \ {call'.l} : lists'[h] = lists[h]]_vars

\* A deletion in the middle: at index 1 of a list of three.
C3_Witness ==
    /\ call.op = "delete"
    /\ call.i = 1
    /\ ret.option # None
    /\ len(lists[call.l]) = 2

\* C4: insert(i, v) with i > n and delete(i) with i >= n return None and leave the
\* list as it was.
C4_OutOfBoundsNoOp ==
    [][(\/ call'.op = "insert" /\ call'.i > Len(Before)
        \/ call'.op = "delete" /\ call'.i >= Len(Before)) =>
          /\ ret' = Opt(None)
          /\ After = Before
          /\ len(lists'[call'.l]) = len(lists[call'.l])
          /\ lists' = lists]_vars

\* delete(n) on a list of n >= 2 elements: the walk reaches the last node and finds
\* nothing after it.
C4_Witness ==
    /\ call.op = "delete"
    /\ len(lists[call.l]) >= 2
    /\ call.i = len(lists[call.l])
    /\ ret = Opt(None)

\* C5: l[i] and l[i] = v address element L[i] when i < n, and panic, returning
\* nothing, when i >= n; no other operation panics.
C5_IndexTotalOrFatal ==
    [][/\ call'.op = "index" =>
            /\ lists' = lists
            /\ IF call'.i < Len(Before)
               THEN panic' = None /\ ret' = Opt(Some(Before[call'.i + 1]))
               ELSE panic' # None /\ ret' = Opt(None)
       /\ call'.op = "index_mut" =>
            IF call'.i < Len(Before)
            THEN panic' = None /\ After = [Before EXCEPT ![call'.i + 1] = call'.v]
            ELSE panic' # None /\ ret' = Ref(None) /\ lists' = lists
       /\ panic' # None =>
            /\ call'.op \in {"index", "index_mut"}
            /\ call'.i >= Len(Before)]_vars

\* Index 3 on a list of three elements.
C5_Witness ==
    /\ call.op = "index"
    /\ call.i = 3
    /\ len(lists[call.l]) = 3
    /\ panic # None

\* C6: split_off(at) with at < n returns L[at+1..] and leaves L[0..=at] (at = n - 1
\* returns the empty list and leaves self as it was); with at >= n it returns the
\* empty list and leaves self as it was.
C6_SplitOff ==
    [][call'.op = "split_off" =>
          LET L == Before
              n == Len(Before)
              at == call'.i
          IN /\ lists'[call'.o] = ret'.link
             /\ IF at < n
                THEN /\ Elems(ret'.link) = SubSeq(L, at + 2, n)
                     /\ After = SubSeq(L, 1, at + 1)
                     /\ After \o Elems(ret'.link) = L
                     /\ at = n - 1 =>
                          ret' = Linked(new) /\ lists'[call'.l] = lists[call'.l]
                ELSE ret' = Linked(new) /\ lists'[call'.l] = lists[call'.l]]_vars

\* split_off(0) on a list of three: one element stays, two are returned.
C6_Witness ==
    /\ call.op = "split_off"
    /\ call.i = 0
    /\ len(lists[call.l]) = 1
    /\ len(ret.link) = 2
    /\ lists[call.o] = ret.link

\* C7: pop_back on a list of n >= 1 elements returns Some(L[n-1]) and leaves
\* L[0..n-1]; on the empty list it returns None and leaves it empty; pop_back after
\* push_back(v) returns Some(v) and restores the list.
C7_PopBack ==
    [][/\ call'.op = "pop_back" =>
            IF Len(Before) >= 1
            THEN /\ ret' = Opt(Some(Before[Len(Before)]))
                 /\ After = SubSeq(Before, 1, Len(Before) - 1)
                 /\ Len(Before) = 1 => lists'[call'.l] = new
            ELSE ret' = Opt(None) /\ lists'[call'.l] = new
       /\ call'.op = "push_back" =>
            /\ pop_back(lists'[call'.l]).ret = Some(call'.v)
            /\ pop_back(lists'[call'.l]).self = lists[call'.l]
            /\ len(pop_back(lists'[call'.l]).self) = len(lists[call'.l])
       /\ (call.op = "push_back" /\ call'.op = "pop_back" /\ call'.l = call.l) =>
            ret' = Opt(Some(call.v))]_vars

\* pop_back on a list of three: the loop walks to the last node but one.
C7_Witness ==
    /\ call.op = "pop_back"
    /\ ret.option # None
    /\ len(lists[call.l]) = 2

\* C8: push(v) makes the list [v] ++ L; pop after push(v) returns Some(v) and
\* restores L; pop on the empty list returns None and leaves it empty.
C8_PushPopLifo ==
    [][/\ call'.op = "push" =>
            /\ After = <<call'.v>> \o Before
            /\ pop(lists'[call'.l]).ret = Some(call'.v)
            /\ pop(lists'[call'.l]).self = lists[call'.l]
            /\ len(pop(lists'[call'.l]).self) = len(lists[call'.l])
       /\ (call'.op = "pop" /\ Before = <<>>) =>
            ret' = Opt(None) /\ lists'[call'.l] = new
       /\ (call.op = "push" /\ call'.op = "pop" /\ call'.l = call.l) =>
            /\ ret' = Opt(Some(call.v))
            /\ After = Tail(Before)
            /\ len(lists'[call'.l]) = len(lists[call'.l]) - 1]_vars

\* A push onto a list of two.
C8_Witness ==
    /\ call.op = "push"
    /\ len(lists[call.l]) = 3
    /\ front(lists[call.l]) = Some(call.v)

\* C9: a.concat(b) leaves a holding a's elements followed by b's, in order (b when
\* a is empty, a as it was when b is empty), len(a) + len(b) of them; and
\* (a concat b) concat c has the element sequence of a concat (b concat c), for the
\* client's lists and their clones.
C9_Concat ==
    /\ [][call'.op = "concat" =>
            LET A == Elems(lists[call'.l])
                B == Elems(lists[call'.o])
            IN /\ After = A \o B
               /\ len(lists'[call'.l]) = len(lists[call'.l]) + len(lists[call'.o])
               /\ A = <<>> => lists'[call'.l] = lists[call'.o]
               /\ B = <<>> => lists'[call'.l] = lists[call'.l]]_vars
    /\ [](\A x, y, z \in DOMAIN lists :
            LET a == lists[x]
                b == lists[y]
                c == lists[z]
            IN Elems(concat(concat(a, b), c)) = Elems(concat(a, concat(b, c))))

\* A concat of a list of one onto a list of two.
C9_Witness ==
    /\ call.op = "concat"
    /\ len(lists[call.l]) = 3
    /\ Elems(lists[call.l])[1] # Elems(lists[call.l])[3]
    /\ lists[call.o] = new

\* C10: on an iter_mut() over L of length n, after k < n calls to next() the cursor
\* addresses the node at index k and insert_next(v) returns Ok and leaves
\* L[0..=k] ++ [v] ++ L[k+1..]; when the cursor addresses no node (the list is
\* empty, or k >= n calls were made) it returns Err and leaves the list as it was.
C10_InsertNext ==
    [][/\ (cursor'.kind = "iter_mut" /\ ~cursor'.edited) =>
            cursor'.it.data = IF cursor'.nexts < Len(Elems(lists'[cursor'.of]))
                              THEN Some(cursor'.nexts)
                              ELSE None
       /\ call'.op = "insert_next" =>
            /\ cursor'.it = cursor.it
            /\ IF cursor.it.data # None
               THEN /\ ret' = Res(Ok)
                    /\ After = InsertAt(Before, cursor.it.data[1] + 1, call'.v)
                    /\ len(lists'[call'.l]) = len(lists[call'.l]) + 1
               ELSE /\ ret' = Res(Err("The iterator is pointed at no data!"))
                    /\ lists' = lists
            /\ (~cursor.edited /\ cursor.nexts < Len(Before)) =>
                 /\ ret' = Res(Ok)
                 /\ After = SubSeq(Before, 1, cursor.nexts + 1) \o <<call'.v>>
                              \o SubSeq(Before, cursor.nexts + 2, Len(Before))
            /\ (~cursor.edited /\ cursor.nexts >= Len(Before)) =>
                 /\ ret' # Res(Ok)
                 /\ lists' = lists]_vars

\* insert_next on a fresh cursor over a list of two: the value lands at index 1,
\* between the two.
C10_Witness ==
    /\ call.op = "insert_next"
    /\ ret = Res(Ok)
    /\ cursor.nexts = 0
    /\ len(lists[cursor.of]) = 3
    /\ Elems(lists[cursor.of])[2] = call.v
    /\ Elems(lists[cursor.of])[3] # call.v

\* C11: on an iter_mut() over L of length n, after k calls to next() with k + 1 < n,
\* pop_next() returns Some(L[k+1]) and leaves L[0..=k] ++ L[k+2..]; when the cursor
\* addresses no node (the list is empty, or k >= n) or the last node (k = n - 1) it
\* returns None and leaves the list as it was.
C11_PopNext ==
    [][call'.op = "pop_next" =>
          /\ cursor'.it = cursor.it
          /\ IF cursor.it.data # None /\ cursor.it.data[1] + 1 < Len(Before)
             THEN /\ ret' = Opt(Some(Before[cursor.it.data[1] + 2]))
                  /\ After = RemoveAt(Before, cursor.it.data[1] + 1)
                  /\ len(lists'[call'.l]) = len(lists[call'.l]) - 1
             ELSE /\ ret' = Opt(None)
                  /\ lists' = lists
          /\ (~cursor.edited /\ cursor.nexts + 1 < Len(Before)) =>
               /\ ret' = Opt(Some(Before[cursor.nexts + 2]))
               /\ After = SubSeq(Before, 1, cursor.nexts + 1)
                            \o SubSeq(Before, cursor.nexts + 3, Len(Before))
          /\ (~cursor.edited /\ cursor.nexts + 1 >= Len(Before)) =>
               /\ ret' = Opt(None)
               /\ lists' = lists
          /\ \A h \in DOMAIN lists \ {call'.l} : lists'[h] = lists[h]]_vars

\* pop_next on a fresh cursor over a list of three: the middle element is returned
\* and the two around it stay.
C11_Witness ==
    /\ call.op = "pop_next"
    /\ cursor.nexts = 0
    /\ ret.option # None
    /\ len(lists[cursor.of]) = 2
    /\ \A k \in 1..2 : Elems(lists[cursor.of])[k] # ret.option[1]

\* C12: with every node created under a value of its own, in every state reached by
\* push, pop, push_back, pop_back, insert, delete, concat, split_off and take each
\* chain is finite and reaches no node twice, and no node is reachable from two
\* handles; the nodes concat, split_off or take moved are reachable afterwards from
\* the handle that received them and from no other.
C12_SingleOwnership ==
    /\ [](\A h \in DOMAIN lists :
            /\ len(lists[h]) <= MaxNodes
            /\ Cardinality(Held(lists[h])) = len(lists[h])
            /\ \A g \in DOMAIN lists \ {h} : Held(lists[h]) \cap Held(lists[g]) = {})
    /\ [][/\ call'.op = "concat" =>
               /\ Held(lists[call'.o]) \subseteq Held(lists'[call'.l])
               /\ Held(lists'[call'.l]) = Held(lists[call'.l]) \cup Held(lists[call'.o])
               /\ \A h \in DOMAIN lists \ {call'.l} :
                     Held(lists'[h]) \cap Held(lists[call'.o]) = {}
          /\ call'.op \in {"split_off", "take"} =>
               /\ Held(ret'.link) \subseteq Held(lists[call'.l])
               /\ Held(lists'[call'.o]) = Held(ret'.link)
               /\ Held(lists'[call'.l]) = Held(lists[call'.l]) \ Held(ret'.link)
               /\ \A h \in DOMAIN lists \ {call'.o} :
                     Held(lists'[h]) \cap Held(ret'.link) = {}
          /\ call'.op = "take" => Held(ret'.link) = Held(lists[call'.l])]_vars

\* split_off moved two nodes of three to another handle.
C12_Witness ==
    /\ call.op = "split_off"
    /\ len(lists[call.l]) = 1
    /\ len(lists[call.o]) = 2
    /\ Cardinality(Held(lists[call.l]) \cup Held(lists[call.o])) = 3

\* C13: for a list L of length n, into_iter() holds L; the k-th call to next()
\* (k < n, counted from 0) returns Some(L[k]); after k calls the iterator holds
\* exactly L[k..]; after n calls it holds the empty list and next() returns None.
C13_IntoIterDrains ==
    [][/\ call'.op = "into_iter" =>
            /\ cursor'.into.data = lists[call'.l]
            /\ cursor'.src = lists[call'.l]
       /\ cursor'.kind = "into_iter" =>
            LET L == Elems(cursor'.src)
                k == cursor'.nexts
            IN /\ Elems(cursor'.into.data) = SubSeq(L, k + 1, Len(L))
               /\ k >= Len(L) => len(cursor'.into.data) = 0
       /\ (call'.op = "next" /\ cursor.kind = "into_iter") =>
            LET L == Elems(cursor.src)
                k == cursor.nexts
            IN /\ cursor'.src = cursor.src
               /\ cursor'.nexts = k + 1
               /\ IF k < Len(L)
                  THEN ret' = Opt(Some(L[k + 1]))
                  ELSE ret' = Opt(None) /\ cursor'.into.data = new]_vars

\* The third call to next() on the into_iter() of a list of three: it yields the
\* last element and leaves the iterator holding nothing.
C13_Witness ==
    /\ cursor.kind = "into_iter"
    /\ call.op = "next"
    /\ cursor.nexts = 3
    /\ len(cursor.src) = 3
    /\ ret = Opt(Some(Elems(cursor.src)[3]))
    /\ Elems(cursor.src)[1] # Elems(cursor.src)[3]
    /\ cursor.into.data = new

\* C14: in every state the constructing and mutating operations reach, len() of
\* every list is the number of elements a full iter() of it yields, and empty()
\* holds exactly when len() is 0; len() and empty() return just that.
C14_LenIsIterCount ==
    /\ [](\A h \in DOMAIN lists :
            /\ len(lists[h]) = Iter_count(lists[h], iter(lists[h]), 0)
            /\ empty(lists[h]) <=> len(lists[h]) = 0)
    /\ [][/\ call'.op = "len" =>
               ret' = Usize(Iter_count(lists[call'.l], iter(lists[call'.l]), 0))
          /\ call'.op = "empty" =>
               ret' = Bool(Iter_count(lists[call'.l], iter(lists[call'.l]), 0) = 0)]_vars

\* len() of a list of two, asked while the other list holds elements too.
C14_Witness ==
    /\ call.op = "len"
    /\ ret = Usize(2)
    /\ Iter_count(lists[call.l], iter(lists[call.l]), 0) = 2
    /\ \E h \in DOMAIN lists : ~empty(lists[h]) /\ h # call.l

\* C15: iter(), iter_mut() (while no insert_next or pop_next has changed the list)
\* and into_iter() yield the elements in index order: the k-th call to next()
\* returns Some(L[k]) for k < n and None for k >= n.  Once a call to next() has
\* returned None every later one returns None; on an exhausted iter_mut()
\* insert_next returns Err and pop_next returns None, both leave the list as it was,
\* and next() still returns None after them.
C15_NonRestartable ==
    [][/\ (call'.op = "next" /\ cursor.kind \in {"iter", "iter_mut", "into_iter"}) =>
            LET L == IF cursor.kind = "into_iter"
                     THEN Elems(cursor.src)
                     ELSE Elems(lists[cursor.of])
                k == cursor.nexts
            IN /\ cursor'.kind = cursor.kind
               /\ cursor'.done <=> (cursor.done \/ ret' = Opt(None))
               /\ cursor.done => ret' = Opt(None)
               /\ (cursor.kind = "iter_mut" => ~cursor.edited) =>
                    ret' = IF k < Len(L) THEN Opt(Some(L[k + 1])) ELSE Opt(None)
       /\ (call'.op = "insert_next" /\ cursor.done) =>
            /\ ret' = Res(Err("The iterator is pointed at no data!"))
            /\ lists' = lists
            /\ cursor' = cursor
       /\ (call'.op = "pop_next" /\ cursor.done) =>
            /\ ret' = Opt(None)
            /\ lists' = lists
            /\ cursor' = cursor]_vars

\* A call to next() on an iter_mut() that returned None before, on a list that
\* still could take the node of an insert_next.
C15_Witness ==
    /\ call.op = "next"
    /\ cursor.kind = "iter_mut"
    /\ cursor.done
    /\ len(lists[cursor.of]) = 2
    /\ cursor.nexts = 4
    /\ TotalNodes < MaxNodes
    /\ ret = Opt(None)

\* C16: take() returns a list whose element sequence is exactly L and leaves self
\* empty (length 0, front() None); on the empty list it returns the empty list.
C16_Take ==
    [][call'.op = "take" =>
          /\ Elems(ret'.link) = Before
          /\ len(ret'.link) = len(lists[call'.l])
          /\ lists'[call'.o] = ret'.link
          /\ After = <<>>
          /\ empty(lists'[call'.l])
          /\ len(lists'[call'.l]) = 0
          /\ front(lists'[call'.l]) = None
          /\ Before = <<>> => ret' = Linked(new)
          /\ \A h \in DOMAIN lists \ {call'.l, call'.o} : lists'[h] = lists[h]]_vars

\* take() of a list of three whose ends differ.
C16_Witness ==
    /\ call.op = "take"
    /\ len(ret.link) = 3
    /\ Elems(ret.link)[1] # Elems(ret.link)[3]
    /\ lists[call.l] = new
    /\ lists[call.o] = ret.link

\* C17: from_elem(x, n) is a list of exactly n elements, each equal to x;
\* from_elem(x, 0) is the empty list.
C17_FromElem ==
    [][call'.op = "from_elem" =>
          /\ Elems(ret'.link) = [k \in 1..call'.i |-> call'.v]
          /\ len(ret'.link) = call'.i
          /\ \A k \in 0..(call'.i - 1) :
                index(ret'.link, k) = [ret |-> Some(call'.v), panic |-> None]
          /\ call'.i = 0 => ret' = Linked(new)
          /\ lists'[call'.l] = ret'.link]_vars

\* from_elem(x, 3).
C17_Witness ==
    /\ call.op = "from_elem"
    /\ call.i = 3
    /\ Elems(ret.link) = <<call.v, call.v, call.v>>
    /\ lists[call.l] = ret.link

\* C18: when indexed access is out of range, the diagnostic of the panic carries
\* the offending index and, as another of the values it formats, the current length
\* of the list.
C18_PanicCarriesIndexAndLength ==
    panic # None =>
        /\ call.op \in {"index", "index_mut"}
        /\ panic[1].index = call.i
        /\ \E f \in DOMAIN panic[1] \ {"msg", "index"} :
              panic[1][f] = len(lists[call.l])

\* C19: for i < n the write l[i] = v makes a read at i return v, and leaves the
\* length and every element at another index as they were; a read of l[i] right
\* after the write returns v.
C19_IndexWriteRead ==
    [][/\ (call'.op = "index_mut" /\ call'.i < Len(Before)) =>
            /\ panic' = None
            /\ ret' = Ref(Some(call'.i))
            /\ index(lists'[call'.l], call'.i) = [ret |-> Some(call'.v), panic |-> None]
            /\ len(lists'[call'.l]) = len(lists[call'.l])
            /\ \A k \in (0..(Len(Before) - 1)) \ {call'.i} :
                  index(lists'[call'.l], k) = index(lists[call'.l], k)
            /\ After = [Before EXCEPT ![call'.i + 1] = call'.v]
            /\ \A h \in DOMAIN lists \ {call'.l} : lists'[h] = lists[h]
       /\ (/\ call.op = "index_mut"
           /\ panic = None
           /\ call'.op = "index"
           /\ call'.l = call.l
           /\ call'.i = call.i) =>
            ret' = Opt(Some(call.v))]_vars

\* A write at index 1 of a list of three, of a value the element before it has not.
C19_Witness ==
    /\ call.op = "index_mut"
    /\ call.i = 1
    /\ panic = None
    /\ len(lists[call.l]) = 3
    /\ Elems(lists[call.l])[2] = call.v
    /\ Elems(lists[call.l])[1] # call.v

\* C20: collecting the items s of an iterator, values or references that are
\* cloned, gives a list whose element sequence is exactly s, of length |s| (the
\* empty list for no items); so collecting the into_iter() or the iter() of a list
\* L gives a list with the element sequence of L.
C20_CollectRoundTrip ==
    [][/\ call'.op = "collect" =>
            LET s == IntoIter_items(into_iter(lists[call'.l]))
            IN /\ s = Before
               /\ ret' = Linked(from_iter(s))
               /\ Elems(ret'.link) = s
               /\ len(ret'.link) = Len(s)
               /\ s = <<>> => ret' = Linked(new)
               /\ Elems(ret'.link) = Before
               /\ lists'[call'.o] = ret'.link
       /\ call'.op = "collect_refs" =>
            LET s == Iter_cloned(lists[call'.l], iter(lists[call'.l]))
            IN /\ s = Before
               /\ ret' = Linked(from_iter(s))
               /\ Elems(ret'.link) = s
               /\ len(ret'.link) = Len(s)
               /\ s = <<>> => ret' = Linked(new)
               /\ Elems(ret'.link) = Before
               /\ lists'[call'.o] = ret'.link
               /\ lists'[call'.l] = lists[call'.l]]_vars

\* The into_iter() of a list of three whose ends differ, collected.
C20_Witness ==
    /\ call.op = "collect"
    /\ len(ret.link) = 3
    /\ Elems(ret.link)[1] # Elems(ret.link)[3]
    /\ lists[call.l] = new
    /\ lists[call.o] = ret.link

\* C21: on an iter_mut(), after insert_next(v) returns Ok the next two calls to
\* next() yield the element the cursor addressed and then v; after pop_next()
\* returns Some(x) the node removed is not among the items next() yields from
\* there on, which are the items it would have yielded without the one after the
\* first; what next() is still to yield is always what the list holds now after
\* the elements yielded so far.  Hence the call to next() that returns None finds
\* exactly n + a - r elements yielded, for the length n the list had, the a calls
\* to insert_next that returned Ok and the r calls to pop_next that returned Some.
C21_CursorEditsSeen ==
    [][/\ cursor'.kind = "iter_mut" =>
            LET L == Elems(lists'[cursor'.of])
                rest == IterMut_rest(lists'[cursor'.of], cursor'.it)
            IN /\ Len(L) = cursor'.len0 + cursor'.ins - cursor'.rem
               /\ rest = SubSeq(L, Len(L) - Len(rest) + 1, Len(L))
               /\ ~cursor'.done => cursor'.yields + Len(rest) = Len(L)
       /\ (call'.op = "insert_next" /\ ret' = Res(Ok)) =>
            LET r1 == IterMut_next(lists'[call'.l], cursor'.it)
                r2 == IterMut_next(lists'[call'.l], r1.it)
            IN /\ cursor'.ins = cursor.ins + 1
               /\ cursor'.rem = cursor.rem
               /\ r1.ret = Some(Deref(lists[call'.l], cursor.it.data[1]).value)
               /\ r2.ret = Some(call'.v)
       /\ (/\ call.op = "insert_next"
           /\ ret = Res(Ok)
           /\ call'.op = "next") =>
            /\ ret' = Opt(Some(Deref(lists[call.l], cursor.it.data[1]).value))
            /\ IterMut_next(lists'[call.l], cursor'.it).ret = Some(call.v)
       /\ (call'.op = "pop_next" /\ ret' # Opt(None)) =>
            LET rest == IterMut_rest(lists[call'.l], cursor.it)
            IN /\ cursor'.rem = cursor.rem + 1
               /\ cursor'.ins = cursor.ins
               /\ ret' = Opt(Some(rest[2]))
               /\ IterMut_rest(lists'[call'.l], cursor'.it) = RemoveAt(rest, 1)
       /\ (call'.op = "next" /\ cursor.kind = "iter_mut") =>
            /\ cursor'.yields = cursor.yields + (IF ret' = Opt(None) THEN 0 ELSE 1)
            /\ <<cursor'.len0, cursor'.ins, cursor'.rem>>
                 = <<cursor.len0, cursor.ins, cursor.rem>>
            /\ ret' = Opt(None) =>
                 cursor'.yields = cursor.len0 + cursor.ins - cursor.rem]_vars

\* The call to next() that returns None after a traversal of a list of two with one
\* insertion and one removal: two elements were yielded.
C21_Witness ==
    /\ cursor.kind = "iter_mut"
    /\ call.op = "next"
    /\ ret = Opt(None)
    /\ cursor.len0 = 2
    /\ cursor.ins = 1
    /\ cursor.rem = 1
    /\ cursor.yields = 2
    /\ cursor.nexts = 3

====
